---- MODULE Spec2Model ----
(***************************************************************************)
(* Model of src/prediction/predictor_model.py: the TSAnnotator wrapper     *)
(* around a multi-output Gaussian Process classifier, its fit / predict /  *)
(* evaluate / save / load methods and the module-level functions.          *)
(*                                                                         *)
(* Tensors of shape (N, T, D) are sequences of N windows, each a sequence  *)
(* of T steps, each a tuple of D columns.  An inference step is            *)
(* <<series id, time id, covariate>>; a training step carries the target   *)
(* label as its last column.                                               *)
(*                                                                         *)
(* The scikit-learn classifier is a library: it is modelled by its         *)
(* contract (fitted / not fitted, one estimator per output column, one     *)
(* probability column per class seen in training, input-width check).  The *)
(* numbers it produces are an arbitrary but deterministic function of the  *)
(* fitted state and of the input row, in integer units.                    *)
(***************************************************************************)
EXTENDS Integers, Sequences, FiniteSets, TLC

\* ---------------------------------------------------------------- bounds
MaxEncodeLen == 2       \* encode_len ranges over 1..MaxEncodeLen
MaxT == 3               \* window length T of the tensors handed to the model
MaxN == 3               \* windows per inference tensor (prediction study)
TrainN == 3             \* windows per training / test tensor

\* ------------------------------------------------------- program constants
PREDICTOR_FILE_NAME == "predictor.joblib"
PADDING_VALUE == -999

None == <<>>

\* ------------------------------------------------------------- input sets
Series == {1, 2}
Starts == {1, 2}
Pads == {0, 1}
Feats == {0, 1}
TrainFeats == {0}
ClassLists == {<<0, 1>>, <<0, 1, 2>>, <<1>>}
Schemas == {[target_classes |-> <<0, 1>>], [target_classes |-> <<0, 1, 2>>]}
Dirs == {"out"}
Handles == {1, 2}

\* A window of one series: `pad` leading padded steps, then consecutive times.
InfWindow(T, sid, start, pad, f) ==
    [i \in 1..T |-> <<sid, IF i <= pad THEN PADDING_VALUE ELSE start + i - pad - 1, f>>]

InfWindows(T, sids, starts) ==
    {InfWindow(T, sid, start, pad, f) :
        sid \in sids, start \in starts, pad \in {p \in Pads : p <= T}, f \in Feats}

\* Tensors of up to maxN windows of one length T.
InferenceData(maxN, sids, starts) ==
    UNION {[1..n -> InfWindows(T, sids, starts)] : n \in 1..maxN, T \in 1..MaxT}

\* Lifecycle study: single windows of one series.
LifeData == InferenceData(1, {1}, {1})
\* Prediction study: several windows, overlapping or not, of two series.
PredictData == InferenceData(MaxN, Series, Starts)

\* A labelled tensor: column i of y cycles through the class list cs[i].
TrainTensor(T, cs, f) ==
    [n \in 1..TrainN |->
        [i \in 1..T |-> <<1, n + i - 1, f, cs[i][((n - 1) % Len(cs[i])) + 1]>>]]

\* Every column with its own class list.
MixedTrainData ==
    UNION {{TrainTensor(T, cs, f) : cs \in [1..T -> ClassLists], f \in TrainFeats} :
            T \in 1..MaxT}

\* The same class list in every column.
TrainData ==
    UNION {{TrainTensor(T, [i \in 1..T |-> c], f) : c \in ClassLists, f \in TrainFeats} :
            T \in 1..MaxT}

\* ---------------------------------------------------------------- helpers
RECURSIVE SumSeq(_)
SumSeq(s) == IF s = <<>> THEN 0 ELSE Head(s) + SumSeq(Tail(s))

RECURSIVE Flatten(_)
Flatten(ss) == IF ss = <<>> THEN <<>> ELSE Head(ss) \o Flatten(Tail(ss))

RECURSIVE GCD(_, _)
GCD(a, b) == IF b = 0 THEN a ELSE GCD(b, a % b)

\* A rational number, reduced: <<numerator, denominator>>.
Frac(n, d) == LET g == GCD(n, d) IN IF g = 0 THEN <<0, 1>> ELSE <<n \div g, d \div g>>
FracAdd(a, b) == Frac(a[1] * b[2] + b[1] * a[2], a[2] * b[2])

Min(S) == CHOOSE x \in S : \A y \in S : x <= y

RECURSIVE SortInts(_)
SortInts(S) == IF S = {} THEN <<>> ELSE <<Min(S)>> \o SortInts(S \ {Min(S)})

\* Python's tuple order on (series id, time id) keys.
KeyLeq(a, b) == a[1] < b[1] \/ (a[1] = b[1] /\ a[2] <= b[2])

RECURSIVE sorted(_)
sorted(K) ==
    IF K = {} THEN <<>>
    ELSE LET m == CHOOSE x \in K : \A y \in K : KeyLeq(x, y)
         IN <<m>> \o sorted(K \ {m})


\* ------------------------------------------ the classifier (library contract)
\* MultiOutputClassifier(GaussianProcessClassifier) before fit: no estimators_.
build_model(multi_class) ==
    [multi_class |-> multi_class, estimators_ |-> <<>>, n_features_in_ |-> 0]

IsFitted(clf) == clf.estimators_ # <<>>

Column(y, i) == [n \in 1..Len(y) |-> y[n][i]]
Classes(col) == SortInts({col[n] : n \in 1..Len(col)})

\* One estimator per output column.  GaussianProcessClassifier refuses a column
\* with fewer than two distinct classes; then nothing is stored.
LibFitFails(y) == \E i \in 1..Len(y[1]) : Len(Classes(Column(y, i))) < 2

LibFit(clf, X, y) ==
    [clf EXCEPT
        !.estimators_ =
            [i \in 1..Len(y[1]) |->
                [classes_ |-> Classes(Column(y, i)),
                 theta |-> (SumSeq(Flatten(X)) + SumSeq(Column(y, i)) + i) % 3]],
        !.n_features_in_ = Len(X[1])]

\* Weight the estimator gives its k-th class on input row x (integer units).
Proba(est, x, k) == 1 + ((est.theta + SumSeq(x) + est.classes_[k]) % 3)

\* predict_proba: a list over the outputs, each an array of shape (N, n_classes).
LibPredictProba(clf, X) ==
    [i \in 1..Len(clf.estimators_) |->
        [n \in 1..Len(X) |->
            [k \in 1..Len(clf.estimators_[i].classes_) |->
                Proba(clf.estimators_[i], X[n], k)]]]

\* predict: an array of shape (N, n_outputs) of the most probable classes.
ArgMax(v) == CHOOSE k \in 1..Len(v) :
                /\ \A j \in 1..Len(v) : v[j] <= v[k]
                /\ \A j \in 1..(k - 1) : v[j] < v[k]

LibPredict(clf, X) ==
    LET P == LibPredictProba(clf, X)
    IN [n \in 1..Len(X) |->
           [i \in 1..Len(clf.estimators_) |->
               clf.estimators_[i].classes_[ArgMax(P[i][n])]]]

\* sklearn.metrics.f1_score(..., average="weighted") as a reduced fraction.
Count(S) == Cardinality(S)

f1_score(y_true, y_pred) ==
    LET I == 1..Len(y_true)
        labels == {y_true[j] : j \in I} \cup {y_pred[j] : j \in I}
        tp(c) == Count({j \in I : y_true[j] = c /\ y_pred[j] = c})
        fp(c) == Count({j \in I : y_true[j] # c /\ y_pred[j] = c})
        fn(c) == Count({j \in I : y_true[j] = c /\ y_pred[j] # c})
        support(c) == Count({j \in I : y_true[j] = c})
        term(c) == Frac(support(c) * 2 * tp(c),
                        Len(y_true) * (2 * tp(c) + fp(c) + fn(c)))
        ls == SortInts(labels)
        acc[j \in 0..Len(ls)] ==
            IF j = 0 THEN <<0, 1>> ELSE FracAdd(acc[j - 1], term(ls[j]))
    IN acc[Len(ls)]

\* --------------------------------------------------------------- TSAnnotator
\* __init__: the classifier is built at once and the object starts untrained.
\* The `model` field is a reference: <<classifier>>, never None.
TSAnnotator(data_schema, encode_len, multi_class) ==
    [data_schema |-> data_schema,
     encode_len |-> encode_len,
     multi_class |-> multi_class,
     kwargs |-> <<>>,
     model |-> <<build_model(multi_class)>>,
     _is_trained |-> FALSE]

\* _get_X_and_y with the two window-length checks left out.
get_X_and_y_nocheck(self, data, is_train) ==
    LET N == Len(data)
        T == Len(data[1])
        D == Len(data[1][1])
    IN IF is_train
       THEN [err |-> "",
             X |-> [n \in 1..N |->
                       Flatten([i \in 1..T |-> SubSeq(data[n][i], 3, D - 1)])],
             y |-> [n \in 1..N |-> [i \in 1..T |-> data[n][i][D]]]]
       ELSE [err |-> "",
             X |-> [n \in 1..N |->
                       Flatten([i \in 1..T |-> SubSeq(data[n][i], 3, D)])],
             y |-> [n \in 1..N |-> [i \in 1..T |-> SubSeq(data[n][i], 1, 2)]]]

\* _get_X_and_y: err is "" or the exception raised.
get_X_and_y(self, data, is_train) ==
    LET N == Len(data)
        T == Len(data[1])
        D == Len(data[1][1])
    IN IF is_train
       THEN IF T # self.encode_len
            THEN [err |-> "ValueError", X |-> <<>>, y |-> <<>>]
            ELSE [err |-> "",
                  X |-> [n \in 1..N |->
                            Flatten([i \in 1..T |-> SubSeq(data[n][i], 3, D - 1)])],
                  y |-> [n \in 1..N |-> [i \in 1..T |-> data[n][i][D]]]]
       ELSE IF T < self.encode_len
            THEN [err |-> "ValueError", X |-> <<>>, y |-> <<>>]
            ELSE [err |-> "",
                  X |-> [n \in 1..N |->
                            Flatten([i \in 1..T |-> SubSeq(data[n][i], 3, D)])],
                  y |-> [n \in 1..N |-> [i \in 1..T |-> SubSeq(data[n][i], 1, 2)]]]

\* Result of a method call: the exception ("ok" when it returns), the library
\* methods it called, the object afterwards and the value returned.
Result(outcome, lib, self, ret) ==
    [outcome |-> outcome, lib |-> lib, self |-> self, ret |-> ret]

\* fit that sets the trained flag before the classifier is fitted.
fit_flag_first(self, train_data) ==
    LET g == get_X_and_y(self, train_data, TRUE)
    IN IF g.err # "" THEN Result(g.err, <<>>, self, <<>>)
       ELSE IF LibFitFails(g.y)
            THEN Result("ValueError", <<"fit">>, [self EXCEPT !._is_trained = TRUE], <<>>)
       ELSE LET clf == LibFit(self.model[1], g.X, g.y)
            IN Result("ok", <<"fit">>,
                      [self EXCEPT !.model = <<clf>>, !._is_trained = TRUE],
                      <<clf>>)

fit(self, train_data) ==
    LET g == get_X_and_y(self, train_data, TRUE)
    IN IF g.err # "" THEN Result(g.err, <<>>, self, <<>>)
       ELSE IF LibFitFails(g.y) THEN Result("ValueError", <<"fit">>, self, <<>>)
       ELSE LET clf == LibFit(self.model[1], g.X, g.y)
            IN Result("ok", <<"fit">>,
                      [self EXCEPT !.model = <<clf>>, !._is_trained = TRUE],
                      <<clf>>)


\* ---- predict, step by step
\* Lines 106-108: an output whose array has more ROWS (shape[0], the number of
\* windows) than there are target classes loses its last row.
Truncate(self, preds) ==
    [i \in 1..Len(preds) |->
        IF Len(preds[i]) > Len(self.data_schema.target_classes)
        THEN SubSeq(preds[i], 1, Len(preds[i]) - 1)
        ELSE preds[i]]

\* np.array(preds) needs every output to have the same shape.
Shape(a) == <<Len(a), IF a = <<>> THEN 0 ELSE Len(a[1])>>
Ragged(preds) == \E i, j \in 1..Len(preds) : Shape(preds[i]) # Shape(preds[j])

\* preds.transpose(1, 0, 2): (outputs, rows, classes) -> (rows, outputs, classes).
Transpose(preds) ==
    [n \in 1..Len(preds[1]) |-> [i \in 1..Len(preds) |-> preds[i][n]]]

EmptyDict == [k \in {} |-> <<>>]

DictAdd(d, k, v) ==
    IF k \in DOMAIN d THEN [d EXCEPT ![k] = Append(@, v)] ELSE d @@ (k :> <<v>>)

\* Lines 112-119: the double loop, pos counting the (index, step_index) pairs.
RECURSIVE Collect(_, _, _, _)
Collect(preds, window_ids, pos, prob_dict) ==
    LET steps == Len(preds[1])
    IN IF pos > Len(preds) * steps THEN prob_dict
       ELSE LET index == ((pos - 1) \div steps) + 1
                step_index == ((pos - 1) % steps) + 1
                series_id == window_ids[index][1][1]
                step_id == <<series_id, window_ids[index][step_index][2]>>
            IN Collect(preds, window_ids, pos + 1,
                       DictAdd(prob_dict, step_id, preds[index][step_index]))

\* np.mean(np.array(v), axis=0) as reduced fractions.
MeanVec(v) ==
    [k \in 1..Len(v[1]) |-> Frac(SumSeq([j \in 1..Len(v) |-> v[j][k]]), Len(v))]

\* Lines 121-125.
Average(prob_dict) ==
    [k \in {key \in DOMAIN prob_dict : key[2] # PADDING_VALUE} |-> MeanVec(prob_dict[k])]

\* Lines 105-125 once predict_proba has returned `raw`: "" stands for the
\* exception of np.array on outputs of unequal shape.
prob_dict_of(self, raw, window_ids) ==
    LET cut == Truncate(self, raw)
    IN IF Ragged(cut) THEN [err |-> "ValueError", dict |-> EmptyDict]
       ELSE IF cut[1] = <<>> THEN [err |-> "", dict |-> EmptyDict]
       ELSE [err |-> "",
             dict |-> Average(Collect(Transpose(cut), window_ids, 1, EmptyDict))]

\* predict_proba raises NotFittedError on a classifier that was never fitted and
\* ValueError on rows that are not as wide as the rows it was fitted on.
predict(self, data) ==
    LET g == get_X_and_y(self, data, FALSE)
        clf == self.model[1]
    IN IF g.err # "" THEN Result(g.err, <<>>, self, <<>>)
       ELSE IF ~IsFitted(clf) THEN Result("NotFittedError", <<"predict_proba">>, self, <<>>)
       ELSE IF Len(g.X[1]) # clf.n_features_in_
            THEN Result("ValueError", <<"predict_proba">>, self, <<>>)
       ELSE LET d == prob_dict_of(self, LibPredictProba(clf, g.X), g.y)
                keys == sorted(DOMAIN d.dict)
            IN IF d.err # "" \/ keys = <<>>     \* np.vstack of nothing raises too
               THEN Result("ValueError", <<"predict_proba">>, self, <<>>)
               ELSE Result("ok", <<"predict_proba">>, self,
                           <<[j \in 1..Len(keys) |-> d.dict[keys[j]]]>>)

\* evaluate that answers the classifier's not-fitted error with a zero score.
evaluate_swallow(self, test_data) ==
    LET g == get_X_and_y(self, test_data, TRUE)
    IN IF g.err # "" THEN Result(g.err, <<>>, self, <<>>)
       ELSE IF ~IsFitted(self.model[1])
            THEN Result("ok", <<"predict">>, self, <<<<0, 1>>>>)
            ELSE Result("ok", <<"predict">>, self,
                        <<f1_score(Flatten(g.y),
                                   Flatten(LibPredict(self.model[1], g.X)))>>)

\* self.model is the classifier built in __init__, so the test of line 134
\* passes; self.model.predict itself raises NotFittedError on a classifier that
\* was never fitted.
evaluate(self, test_data) ==
    LET g == get_X_and_y(self, test_data, TRUE)
    IN IF g.err # "" THEN Result(g.err, <<>>, self, <<>>)
       ELSE IF self.model # None
            THEN IF ~IsFitted(self.model[1])
                 THEN Result("NotFittedError", <<"predict">>, self, <<>>)
                 ELSE Result("ok", <<"predict">>, self,
                             <<f1_score(Flatten(g.y),
                                        Flatten(LibPredict(self.model[1], g.X)))>>)
       ELSE Result("NotFittedError", <<>>, self, <<>>)

\* ---- persistence: joblib writes the whole object as one stream of fields
\* A dump that stores the hyperparameters and a classifier built anew.
dump_rebuilt(self) ==
    << <<"data_schema", self.data_schema>>,
       <<"encode_len", self.encode_len>>,
       <<"multi_class", self.multi_class>>,
       <<"kwargs", self.kwargs>>,
       <<"model", <<build_model(self.multi_class)>> >>,
       <<"_is_trained", self._is_trained>> >>

dump(self) ==
    << <<"data_schema", self.data_schema>>,
       <<"encode_len", self.encode_len>>,
       <<"multi_class", self.multi_class>>,
       <<"kwargs", self.kwargs>>,
       <<"model", self.model>>,
       <<"_is_trained", self._is_trained>> >>

Field(blob, name) == blob[CHOOSE j \in 1..Len(blob) : blob[j][1] = name][2]

joblib_load(blob) ==
    [data_schema |-> Field(blob, "data_schema"),
     encode_len |-> Field(blob, "encode_len"),
     multi_class |-> Field(blob, "multi_class"),
     kwargs |-> Field(blob, "kwargs"),
     model |-> Field(blob, "model"),
     _is_trained |-> Field(blob, "_is_trained")]


\* ------------------------------------------------------------ state machine
VARIABLES
    heap,     \* handle -> <<>> or <<TSAnnotator object>>; 1: built here, 2: loaded
    dirs,     \* the directories that exist
    files,    \* directory -> <<>> or <<content of its PREDICTOR_FILE_NAME>>
    saved,    \* history: directory -> <<>> or <<the object last dumped there>>
    call      \* the last call: operation, arguments, exception, library calls, result

vars == <<heap, dirs, files, saved, call>>

Call(op, h, dir, data, r) ==
    [op |-> op, h |-> h, dir |-> dir, data |-> data,
     outcome |-> r.outcome, lib |-> r.lib, ret |-> r.ret]

NoResult == Result("ok", <<>>, <<>>, <<>>)

Init ==
    /\ heap = [h \in Handles |-> <<>>]
    /\ dirs = {}
    /\ files = [d \in Dirs |-> <<>>]
    /\ saved = [d \in Dirs |-> <<>>]
    /\ call = Call("start", 0, "", <<>>, NoResult)

\* TSAnnotator(data_schema, encode_len): a new, untrained object.
New(data_schema, encode_len) ==
    /\ heap[1] = <<>>
    /\ heap' = [heap EXCEPT ![1] = <<TSAnnotator(data_schema, encode_len, "one_vs_rest")>>]
    /\ call' = Call("new", 1, "", <<>>, NoResult)
    /\ UNCHANGED <<dirs, files, saved>>

\* train_predictor_model: construct, fit, return; nothing is returned if fit raises.
TrainPredictorModel(train_data, data_schema, encode_len) ==
    LET r == fit(TSAnnotator(data_schema, encode_len, "one_vs_rest"), train_data)
    IN /\ heap[1] = <<>>
       /\ heap' = IF r.outcome = "ok" THEN [heap EXCEPT ![1] = <<r.self>>] ELSE heap
       /\ call' = Call("train_predictor_model", 1, "", train_data,
                       [r EXCEPT !.ret = <<>>])
       /\ UNCHANGED <<dirs, files, saved>>

Fit(h, train_data) ==
    LET r == fit(heap[h][1], train_data)
    IN /\ heap[h] # <<>>
       /\ heap' = [heap EXCEPT ![h] = <<r.self>>]
       /\ call' = Call("fit", h, "", train_data, [r EXCEPT !.ret = <<>>])
       /\ UNCHANGED <<dirs, files, saved>>

\* predict, also reached through predict_with_model.
Predict(h, data) ==
    LET r == predict(heap[h][1], data)
    IN /\ heap[h] # <<>>
       /\ heap' = [heap EXCEPT ![h] = <<r.self>>]
       /\ call' = Call("predict", h, "", data, r)
       /\ UNCHANGED <<dirs, files, saved>>

\* evaluate, also reached through evaluate_predictor_model.
Evaluate(h, test_data) ==
    LET r == evaluate(heap[h][1], test_data)
    IN /\ heap[h] # <<>>
       /\ heap' = [heap EXCEPT ![h] = <<r.self>>]
       /\ call' = Call("evaluate", h, "", test_data, r)
       /\ UNCHANGED <<dirs, files, saved>>

\* save without the trained check.
save_nocheck(self, model_dir_path, dirsNow) ==
    IF model_dir_path \notin dirsNow THEN "FileNotFoundError" ELSE "ok"

\* TSAnnotator.save: joblib.dump opens the file, which needs the directory.
save(self, model_dir_path, dirsNow) ==
    IF ~self._is_trained THEN "NotFittedError"
    ELSE IF model_dir_path \notin dirsNow THEN "FileNotFoundError"
    ELSE "ok"

Save(h, model_dir_path) ==
    LET self == heap[h][1]
        outcome == save(self, model_dir_path, dirs)
    IN /\ heap[h] # <<>>
       /\ files' = IF outcome = "ok"
                   THEN [files EXCEPT ![model_dir_path] = <<dump(self)>>] ELSE files
       /\ saved' = IF outcome = "ok"
                   THEN [saved EXCEPT ![model_dir_path] = <<self>>] ELSE saved
       /\ call' = Call("save", h, model_dir_path, <<>>,
                       Result(outcome, <<>>, self, <<>>))
       /\ UNCHANGED <<heap, dirs>>

\* save_predictor_model: creates the directory first, then model.save.
SavePredictorModel(h, predictor_dir_path) ==
    LET self == heap[h][1]
        made == dirs \cup {predictor_dir_path}
        outcome == save(self, predictor_dir_path, made)
    IN /\ heap[h] # <<>>
       /\ dirs' = made
       /\ files' = IF outcome = "ok"
                   THEN [files EXCEPT ![predictor_dir_path] = <<dump(self)>>] ELSE files
       /\ saved' = IF outcome = "ok"
                   THEN [saved EXCEPT ![predictor_dir_path] = <<self>>] ELSE saved
       /\ call' = Call("save_predictor_model", h, predictor_dir_path, <<>>,
                       Result(outcome, <<>>, self, <<>>))
       /\ UNCHANGED heap

\* load that answers a missing file with the not-fitted error.
load_notfitted(model_dir_path, dirsNow, filesNow) ==
    IF model_dir_path \in dirsNow /\ filesNow[model_dir_path] # <<>>
    THEN Result("ok", <<>>, joblib_load(filesNow[model_dir_path][1]), <<2>>)
    ELSE Result("NotFittedError", <<>>, <<>>, <<>>)

\* TSAnnotator.load, also reached through load_predictor_model: joblib.load
\* opens <dir>/predictor.joblib and rebuilds the object stored in it.
load(model_dir_path, dirsNow, filesNow) ==
    IF model_dir_path \in dirsNow /\ filesNow[model_dir_path] # <<>>
    THEN Result("ok", <<>>, joblib_load(filesNow[model_dir_path][1]), <<2>>)
    ELSE Result("FileNotFoundError", <<>>, <<>>, <<>>)

Load(model_dir_path) ==
    LET r == load(model_dir_path, dirs, files)
    IN /\ heap' = IF r.outcome = "ok" THEN [heap EXCEPT ![2] = <<r.self>>] ELSE heap
       /\ call' = Call("load", 2, model_dir_path, <<>>, r)
       /\ UNCHANGED <<dirs, files, saved>>

Next ==
    \/ \E s \in Schemas, e \in 1..MaxEncodeLen : New(s, e)
    \/ \E x \in TrainData, s \in Schemas, e \in 1..MaxEncodeLen :
          TrainPredictorModel(x, s, e)
    \/ \E h \in Handles, x \in TrainData : Fit(h, x)
    \/ \E h \in Handles, x \in LifeData : Predict(h, x)
    \/ \E h \in Handles, x \in TrainData : Evaluate(h, x)
    \/ \E h \in Handles, d \in Dirs : Save(h, d)
    \/ \E h \in Handles, d \in Dirs : SavePredictorModel(h, d)
    \/ \E d \in Dirs : Load(d)

Spec == Init /\ [][Next]_vars


\* ---- prediction study: predict_with_model(model, test_data) has just been
\* entered with a model that train_predictor_model returned.
Pending == Result("pending", <<>>, <<>>, <<>>)

PredInit ==
    \E s \in Schemas, e \in 1..MaxEncodeLen, t \in MixedTrainData, x \in PredictData :
        LET r == fit(TSAnnotator(s, e, "one_vs_rest"), t)
        IN /\ r.outcome = "ok"
           /\ heap = [h \in Handles |-> IF h = 1 THEN <<r.self>> ELSE <<>>]
           /\ dirs = {}
           /\ files = [d \in Dirs |-> <<>>]
           /\ saved = [d \in Dirs |-> <<>>]
           /\ call = Call("predict_with_model", 1, "", x, Pending)

PredictWithModel ==
    /\ call.op = "predict_with_model"
    /\ call.outcome = "pending"
    /\ Predict(call.h, call.data)

PredNext == PredictWithModel

PredSpec == PredInit /\ [][PredNext]_vars


\* ===================================================================== claims
Obj(h) == heap[h][1]
Trained(hp, h) == hp[h] # <<>> /\ hp[h][1]._is_trained
WindowLen(data) == Len(data[1])

\* C1: fit raises ValueError whenever T # encode_len and predict raises
\* ValueError whenever T < encode_len, in both cases before the classifier is
\* called (no library call is made by the failing call).
C1_WindowLengthFailsFast ==
    /\ (call.op = "fit" /\ WindowLen(call.data) # Obj(call.h).encode_len)
          => (call.outcome = "ValueError" /\ call.lib = <<>>)
    /\ (call.op = "predict" /\ WindowLen(call.data) < Obj(call.h).encode_len)
          => (call.outcome = "ValueError" /\ call.lib = <<>>)

C1_Witness ==
    /\ call.op = "fit"
    /\ Trained(heap, call.h)
    /\ WindowLen(call.data) > Obj(call.h).encode_len
    /\ call.outcome = "ValueError"

\* C2: save, directly or through save_predictor_model, on an object that is not
\* trained raises the not-fitted error and leaves the files as they were.
C2_SaveUntrainedRaises ==
    [][(call'.op \in {"save", "save_predictor_model"} /\ ~Trained(heap, call'.h))
          => (call'.outcome = "NotFittedError" /\ files' = files)]_vars

C2_Witness ==
    /\ call.op = "save_predictor_model"
    /\ ~Trained(heap, call.h)
    /\ call.outcome = "NotFittedError"
    /\ call.dir \in dirs
    /\ files[call.dir] = <<>>

\* C3: evaluate on an object that is not trained, with test windows of length
\* encode_len, raises the not-fitted error and returns no score.
C3_EvaluateUntrainedRaises ==
    (/\ call.op = "evaluate"
     /\ ~Trained(heap, call.h)
     /\ WindowLen(call.data) = Obj(call.h).encode_len)
        => (call.outcome = "NotFittedError" /\ call.ret = <<>>)

C3_Witness ==
    /\ call.op = "evaluate"
    /\ ~Trained(heap, call.h)
    /\ WindowLen(call.data) = Obj(call.h).encode_len
    /\ call.outcome = "NotFittedError"

FileMissing(d) == d \notin dirs \/ files[d] = <<>>

\* C4 as stated: load on a directory without predictor.joblib fails with the
\* not-fitted error.
C4_LoadMissingNotFitted ==
    (call.op = "load" /\ FileMissing(call.dir)) => call.outcome = "NotFittedError"

\* C4 amended: load on a directory without predictor.joblib fails with the
\* file-not-found error of the file open and returns no model.
C4_LoadMissingFileNotFound ==
    (call.op = "load" /\ FileMissing(call.dir))
        => (call.outcome = "FileNotFoundError" /\ call.ret = <<>>)

C4_Witness ==
    /\ call.op = "load"
    /\ call.dir \in dirs
    /\ files[call.dir] = <<>>
    /\ call.outcome = "FileNotFoundError"

\* Inputs of the round-trip comparison: one or two windows, overlapping or not.
RoundTripData == InferenceData(2, {1}, Starts)

StepKey(data, n, i) == <<data[n][i][1], data[n][i][2]>>

InputKeys(data) ==
    {StepKey(data, n, i) : n \in 1..Len(data), i \in 1..WindowLen(data)}

RealKeys(data) == {k \in InputKeys(data) : k[2] # PADDING_VALUE}

\* All the (window, step) pairs of the input that carry the key.
Covering(data, key) ==
    {p \in (1..Len(data)) \X (1..WindowLen(data)) : StepKey(data, p[1], p[2]) = key}

RECURSIVE SumOver(_, _, _)
SumOver(raw, P, k) ==
    IF P = {} THEN 0
    ELSE LET p == CHOOSE q \in P : TRUE
         IN raw[p[2]][p[1]][k] + SumOver(raw, P \ {p}, k)

\* Mean of class k over the classifier's vectors of every covering pair.
MeanOfAll(raw, data, key, k) ==
    Frac(SumOver(raw, Covering(data, key), k), Cardinality(Covering(data, key)))

\* What predict_proba returned in the last call (the call got that far).
ReachedClassifier ==
    /\ call.op = "predict"
    /\ call.lib = <<"predict_proba">>
    /\ IsFitted(Obj(call.h).model[1])
    /\ WindowLen(call.data) = Obj(call.h).encode_len

Raw == LibPredictProba(Obj(call.h).model[1], get_X_and_y(Obj(call.h), call.data, FALSE).X)

Returned == call.op = "predict" /\ call.outcome = "ok"

\* C6: every key's returned vector is the elementwise mean of the classifier's
\* vectors for that timestep in every input window covering it; no window's
\* prediction is left out.
C6_MeanOverEveryWindow ==
    Returned =>
        LET keys == sorted(RealKeys(call.data))
            out == call.ret[1]
        IN \A j \in 1..Len(keys) :
              /\ j <= Len(out)
              /\ \A k \in 1..Len(out[j]) : out[j][k] = MeanOfAll(Raw, call.data, keys[j], k)

\* C7: predict returns no row for a key with the sentinel time id and a row
\* for every other key: as many rows as the input has keys off the sentinel.
C7_RowForEveryRealKey ==
    Returned => Len(call.ret[1]) = Cardinality(RealKeys(call.data))

Permuted(data, p) == [n \in 1..Len(data) |-> data[p[n]]]

\* C8: one row per distinct key of the input (sentinel keys aside), in
\* ascending key order, whatever the order of the windows in the tensor.
C8_OneRowPerKeySorted ==
    Returned =>
        LET self == Obj(call.h)
            g == get_X_and_y(self, call.data, FALSE)
            keys == sorted(DOMAIN prob_dict_of(self, Raw, g.y).dict)
        IN /\ keys = sorted(RealKeys(call.data))
           /\ Len(call.ret[1]) = Len(keys)
           /\ \A p \in Permutations(1..Len(call.data)) :
                 predict(self, Permuted(call.data, p)).ret = call.ret

\* C9: the truncation step drops the last class entry of the vectors that have
\* one entry more than there are target classes, changes nothing else and
\* removes no window.
C9_TruncationDropsOnlyClassColumn ==
    ReachedClassifier =>
        LET self == Obj(call.h)
            classes == Len(self.data_schema.target_classes)
            cut == Truncate(self, Raw)
        IN \A i \in 1..Len(Raw) :
              /\ Len(cut[i]) = Len(Raw[i])
              /\ \A n \in 1..Len(cut[i]) :
                    cut[i][n] = IF Len(Raw[i][n]) = classes + 1
                                THEN SubSeq(Raw[i][n], 1, classes)
                                ELSE Raw[i][n]

ReadOnlyOps == {"predict", "evaluate", "save", "save_predictor_model"}

\* C10 as stated: once an object is trained, no fit, predict, evaluate or save
\* call changes its fitted classifier.
C10_ClassifierNeverChanges ==
    [][\A h \in Handles :
          (Trained(heap, h) /\ call'.op \in ReadOnlyOps \cup {"fit"})
              => heap'[h][1].model = heap[h][1].model]_vars

\* C10 amended: an object starts untrained; it becomes trained only through a
\* fit call on it that completes (or is the trained object load rebuilds); the
\* trained flag never returns to false; predict, evaluate and save change
\* nothing of a trained object; its classifier changes only through a later fit
\* call on it that completes or through loading.
C10_Lifecycle ==
    [][\A h \in Handles :
          /\ (heap[h] = <<>> /\ call'.op = "new" /\ call'.h = h) => ~Trained(heap', h)
          /\ (~Trained(heap, h) /\ Trained(heap', h))
                => \/ /\ call'.op \in {"fit", "train_predictor_model"}
                      /\ call'.h = h
                      /\ call'.outcome = "ok"
                   \/ call'.op = "load" /\ call'.h = h /\ call'.outcome = "ok"
          /\ Trained(heap, h) => Trained(heap', h)
          /\ (Trained(heap, h) /\ call'.op \in ReadOnlyOps) => heap'[h] = heap[h]
          /\ (Trained(heap, h) /\ heap'[h][1].model # heap[h][1].model)
                => /\ call'.op \in {"fit", "load"}
                   /\ call'.h = h
                   /\ call'.outcome = "ok"]_vars

\* A trained object was saved, loaded back and then fitted again on other data:
\* its classifier is no longer the one that was saved.
C10_Witness ==
    /\ call.op = "fit"
    /\ call.h = 1
    /\ call.outcome = "ok"
    /\ Trained(heap, 2)
    /\ saved["out"] # <<>>
    /\ Obj(1).model # saved["out"][1].model

====
